---- MODULE Spec2Model ----
(***************************************************************************)
(* Model of the IMDb 2024 dashboard scripts filteratiom_app.py and         *)
(* visualization_app.py: the cached loader/normalizer load_movies_data,    *)
(* the filter (filter_data / the inline mask of visualization_app), the    *)
(* top-N ranking and the shortest/longest section.                         *)
(*                                                                         *)
(* Representation.  Text is a sequence of one-character strings.  The SQL  *)
(* NULL / Python None is the one-element sequence None.  A float is a      *)
(* reduced fraction <<num, den>>; NaN is <<0, 0>> (the 0/0 pandas yields). *)
(* Rating is kept in tenths of a point (7.5 is 75).                        *)
(***************************************************************************)
EXTENDS Integers, Sequences, FiniteSets, TLC

VARIABLES app, db, cache, pc, df, widgets, filtered_df, top_movies, extremes

vars == <<app, db, cache, pc, df, widgets, filtered_df, top_movies, extremes>>

----------------------------------------------------------------------------
(* Bounds of the model *)

MaxBatch == 3
MaxRows == 2
MaxVotingLen == 4
MaxDurationLen == 4
MaxTop == 6

----------------------------------------------------------------------------
(* Text and numbers *)

Digits == {"0", "1", "2", "3", "4", "5", "6", "7", "8", "9"}

DigitVal(c) ==
  CASE c = "0" -> 0 [] c = "1" -> 1 [] c = "2" -> 2 [] c = "3" -> 3
    [] c = "4" -> 4 [] c = "5" -> 5 [] c = "6" -> 6 [] c = "7" -> 7
    [] c = "8" -> 8 [] c = "9" -> 9

None == <<"NULL">>

NaN == <<0, 0>>

IsNaN(x) == x[2] = 0

RECURSIVE GCD(_, _)
GCD(a, b) == IF b = 0 THEN a ELSE GCD(b, a % b)

\* a / b in floating point, 0/0 being NaN (no other division by zero arises:
\* a numerator is positive only when the denominator, a maximum, is too)
Frac(a, b) == IF b = 0 THEN NaN ELSE <<a \div GCD(a, b), b \div GCD(a, b)>>

\* x <= y on floats: false whenever an operand is NaN
Le(x, y) ==
  /\ ~IsNaN(x)
  /\ ~IsNaN(y)
  /\ LET g == GCD(x[2], y[2])
     IN x[1] * (y[2] \div g) <= y[1] * (x[2] \div g)

Lt(x, y) == Le(x, y) /\ ~Le(y, x)

\* Series.astype(str)
AsStr(v) == IF v = None THEN <<"N", "o", "n", "e">> ELSE v

\* str.replace(c, rep, regex=False): every occurrence of the character c
RECURSIVE StrReplace(_, _, _)
StrReplace(s, c, rep) ==
  IF s = <<>> THEN <<>>
  ELSE (IF Head(s) = c THEN rep ELSE <<Head(s)>>) \o StrReplace(Tail(s), c, rep)

\* the maximal run of digits of s that starts at position i
RECURSIVE DigitRun(_, _)
DigitRun(s, i) ==
  IF i > Len(s) \/ s[i] \notin Digits THEN <<>>
  ELSE <<s[i]>> \o DigitRun(s, i + 1)

\* str.extract(r'(\d+)'): the leftmost maximal run of digits, NaN if none
StrExtract(s) ==
  IF \E i \in 1..Len(s) : s[i] \in Digits
  THEN DigitRun(s, CHOOSE i \in 1..Len(s) :
                     /\ s[i] \in Digits
                     /\ \A j \in 1..(i - 1) : s[j] \notin Digits)
  ELSE None

\* int() / to_numeric of a run of digits
RECURSIVE ToInt(_)
ToInt(ds) ==
  IF ds = <<>> THEN 0
  ELSE ToInt(SubSeq(ds, 1, Len(ds) - 1)) * 10 + DigitVal(ds[Len(ds)])

\* pd.to_numeric(x, errors='coerce').fillna(0) of an extracted run
ToNumericFill0(x) == IF x = None THEN 0 ELSE ToInt(x)

\* CleanVoting without the removal of the commas
CleanVotingKeepsCommas(v) ==
  ToNumericFill0(StrExtract(StrReplace(AsStr(v), "K", <<"0", "0", "0">>)))

\* "Clean Voting": K -> 000, commas removed, first digit run, NaN -> 0
CleanVoting(v) ==
  ToNumericFill0(
    StrExtract(StrReplace(StrReplace(AsStr(v), "K", <<"0", "0", "0">>), ",", <<>>)))

\* pd.to_numeric(r, errors='coerce').fillna(0) of a Rating cell, in tenths.
\* The tables of the model hold a Rating as None, as decimal text with at most
\* one digit after the point, or as text to_numeric cannot parse.
CleanRating(r) ==
  IF r # None /\ r # <<>> /\ \A i \in 1..Len(r) : r[i] \in Digits
    THEN ToInt(r) * 10
  ELSE IF /\ r # None
          /\ Len(r) >= 3
          /\ r[Len(r) - 1] = "."
          /\ \A i \in 1..Len(r) : i # Len(r) - 1 => r[i] \in Digits
    THEN ToInt(SubSeq(r, 1, Len(r) - 2)) * 10 + DigitVal(r[Len(r)])
  ELSE 0

\* re.findall(r'(\d+)<c>', d): the leftmost digit run directly followed by c
\* (as a set with at most one element: the run of the first match)
FindAll(d, c) ==
  LET hits == {i \in 1..Len(d) :
                 /\ d[i] \in Digits
                 /\ i + Len(DigitRun(d, i)) <= Len(d)
                 /\ d[i + Len(DigitRun(d, i))] = c}
  IN IF hits = {} THEN {}
     ELSE {DigitRun(d, CHOOSE i \in hits : \A j \in hits : i <= j)}

\* parse_duration reading the minutes with the hours' pattern
parse_duration_hours_twice(d) ==
  LET match == FindAll(d, "h")
      hours == IF match # {} THEN ToInt(CHOOSE m \in match : TRUE) ELSE 0
      mins == FindAll(d, "h")
      minutes == IF mins # {} THEN ToInt(CHOOSE m \in mins : TRUE) ELSE 0
  IN IF hours # 0 \/ minutes # 0 THEN Frac(hours * 60 + minutes, 1) ELSE NaN

\* parse_duration, applied to the text after 'h' -> 'h '
parse_duration(d) ==
  LET match == FindAll(d, "h")
      hours == IF match # {} THEN ToInt(CHOOSE m \in match : TRUE) ELSE 0
      mins == FindAll(d, "m")
      minutes == IF mins # {} THEN ToInt(CHOOSE m \in mins : TRUE) ELSE 0
  IN IF hours # 0 \/ minutes # 0 THEN Frac(hours * 60 + minutes, 1) ELSE NaN

\* "Clean Duration" of one cell: astype(str), 'h' -> 'h ', parse_duration
CleanDuration(d) == parse_duration(StrReplace(AsStr(d), "h", <<"h", " ">>))

Whitespace == {" "}

LowerChar(c) ==
  CASE c = "A" -> "a" [] c = "B" -> "b" [] c = "C" -> "c" [] c = "D" -> "d"
    [] c = "E" -> "e" [] c = "F" -> "f" [] c = "G" -> "g" [] c = "H" -> "h"
    [] c = "I" -> "i" [] c = "J" -> "j" [] c = "K" -> "k" [] c = "L" -> "l"
    [] c = "M" -> "m" [] c = "N" -> "n" [] c = "O" -> "o" [] c = "P" -> "p"
    [] c = "Q" -> "q" [] c = "R" -> "r" [] c = "S" -> "s" [] c = "T" -> "t"
    [] c = "U" -> "u" [] c = "V" -> "v" [] c = "W" -> "w" [] c = "X" -> "x"
    [] c = "Y" -> "y" [] c = "Z" -> "z" [] OTHER -> c

\* str.strip(): leading and trailing whitespace removed
RECURSIVE StrStrip(_)
StrStrip(s) ==
  IF s = <<>> THEN s
  ELSE IF Head(s) \in Whitespace THEN StrStrip(Tail(s))
  ELSE IF s[Len(s)] \in Whitespace THEN StrStrip(SubSeq(s, 1, Len(s) - 1))
  ELSE s

\* str.lower()
StrLower(s) == [i \in 1..Len(s) |-> LowerChar(s[i])]

\* "Clean Genre"
CleanGenre(g) == StrLower(StrStrip(g))

----------------------------------------------------------------------------
(* Column statistics *)

RECURSIVE SumOver(_, _)
SumOver(S, f) ==
  IF S = {} THEN 0
  ELSE LET i == CHOOSE j \in S : TRUE IN f[i] + SumOver(S \ {i}, f)

\* Series.mean() of a column of parsed durations (whole minutes or NaN),
\* NaN skipped: NaN when nothing is defined
DurationMean(col) ==
  LET defined == {i \in DOMAIN col : ~IsNaN(col[i])}
  IN Frac(SumOver(defined, [i \in defined |-> col[i][1]]), Cardinality(defined))

\* Series.fillna(value)
FillNa(x, value) == IF IsNaN(x) THEN value ELSE x

\* Series.max() of the cleaned Voting column (never empty here)
VotingMax(col) == CHOOSE m \in {col[i] : i \in DOMAIN col} :
                    \A i \in DOMAIN col : col[i] <= m

\* the Score with the rating left out of the blend
ScoreOfVotesOnly(rating_norm, voting_norm) ==
  IF IsNaN(rating_norm) \/ IsNaN(voting_norm) THEN NaN
  ELSE Frac(voting_norm[1], 2 * voting_norm[2])

\* Rating_norm * 0.5 + Voting_norm * 0.5
ScoreOf(rating_norm, voting_norm) ==
  IF IsNaN(rating_norm) \/ IsNaN(voting_norm) THEN NaN
  ELSE Frac(rating_norm[1] * voting_norm[2] + voting_norm[1] * rating_norm[2],
            2 * rating_norm[2] * voting_norm[2])

----------------------------------------------------------------------------
(* Sorting *)

\* The index orders a descending sort of the integer keys key[i], i in S, can
\* yield.  sort_values is called with its default kind='quicksort', which is
\* not stable: ties come out in any order.
RECURSIVE DescOrders(_, _)
DescOrders(S, key) ==
  IF S = {} THEN {<<>>}
  ELSE LET top == {i \in S : \A j \in S : key[i] >= key[j]}
       IN UNION {{<<i>> \o r : r \in DescOrders(S \ {i}, key)} : i \in top}

\* the positions of a set of positions, ascending
RECURSIVE Ascending(_)
Ascending(S) ==
  IF S = {} THEN <<>>
  ELSE LET i == CHOOSE j \in S : \A k \in S : j <= k
       IN <<i>> \o Ascending(S \ {i})

\* drop_duplicates with keep='last'
RECURSIVE DropDuplicatesKeepLast(_)
DropDuplicatesKeepLast(rows) ==
  IF rows = <<>> THEN <<>>
  ELSE LET rest == DropDuplicatesKeepLast(Tail(rows))
       IN IF \E i \in 2..Len(rows) : rows[i].Title = Head(rows).Title
          THEN rest ELSE <<Head(rows)>> \o rest

\* DataFrame.drop_duplicates(subset=['Title'], keep='first')
RECURSIVE DropDuplicates(_)
DropDuplicates(rows) ==
  IF rows = <<>> THEN <<>>
  ELSE LET init == DropDuplicates(SubSeq(rows, 1, Len(rows) - 1))
           last == rows[Len(rows)]
       IN IF \E i \in 1..(Len(rows) - 1) : rows[i].Title = last.Title
          THEN init ELSE Append(init, last)

----------------------------------------------------------------------------
(* load_movies_data: the body between the query and the return *)

\* lines 22-56: the cleaned and scored frame, before the sort and the dedup
Cleaned(raw) ==
  LET voting == [i \in DOMAIN raw |-> CleanVoting(raw[i].Voting)]
      parsed == [i \in DOMAIN raw |-> CleanDuration(raw[i].Duration)]
      mean == DurationMean(parsed)
      vmax == VotingMax(voting)
  IN [i \in DOMAIN raw |->
        LET voting_norm == Frac(voting[i], vmax)
            rating == CleanRating(raw[i].Rating)
            rating_norm == Frac(rating, 100)
        IN [idx |-> i,
            Title |-> raw[i].Title,
            Genre |-> CleanGenre(raw[i].Genre),
            Rating |-> rating,
            Voting |-> voting[i],
            Duration |-> FillNa(parsed[i], mean),
            Voting_norm |-> voting_norm,
            Rating_norm |-> rating_norm,
            Score |-> ScoreOf(rating_norm, voting_norm)]]

\* line 59: sort_values(by=['Voting'], ascending=False), every order it can give
SortByVoting(frame) ==
  {[k \in 1..Len(frame) |-> frame[o[k]]] :
     o \in DescOrders(DOMAIN frame, [i \in DOMAIN frame |-> frame[i].Voting])}

\* every frame load_movies_data can return for the table contents raw
Normalized(raw) == {DropDuplicates(s) : s \in SortByVoting(Cleaned(raw))}

----------------------------------------------------------------------------
(* Filter, ranking and extremes *)

\* between with inclusive='neither'
BetweenExclusive(x, left, right) == Lt(left, x) /\ Lt(x, right)

\* Series.between(left, right), inclusive on both sides, on floats
Between(x, left, right) == Le(left, x) /\ Le(x, right)

\* df[mask]: the rows whose mask entry is true, in the frame's order
RECURSIVE BoolIndex(_, _)
BoolIndex(frame, mask) ==
  IF frame = <<>> THEN <<>>
  ELSE LET init == BoolIndex(SubSeq(frame, 1, Len(frame) - 1),
                             SubSeq(mask, 1, Len(frame) - 1))
       IN IF mask[Len(frame)] THEN Append(init, frame[Len(frame)]) ELSE init

\* filteratiom_app.filter_data
filter_data(frame, genres, rating_min, rating_max, votes, dur_range) ==
  BoolIndex(frame,
    [i \in DOMAIN frame |->
       /\ frame[i].Genre \in genres
       /\ rating_min <= frame[i].Rating /\ frame[i].Rating <= rating_max
       /\ votes[1] <= frame[i].Voting /\ frame[i].Voting <= votes[2]
       /\ Between(frame[i].Duration, dur_range[1], dur_range[2])])

\* visualization_app: the inline mask that builds filtered_df
filtered_viz(frame, selected_genre, min_rating, min_votes, duration_range) ==
  BoolIndex(frame,
    [i \in DOMAIN frame |->
       /\ frame[i].Genre \in selected_genre
       /\ frame[i].Rating >= min_rating
       /\ frame[i].Voting >= min_votes
       /\ Between(frame[i].Duration, duration_range[1], duration_range[2])])

\* Series.min() / Series.max() of the Duration column, NaN skipped
DurationMin(frame) ==
  LET defined == {frame[i].Duration : i \in {j \in DOMAIN frame : ~IsNaN(frame[j].Duration)}}
  IN IF defined = {} THEN NaN
     ELSE CHOOSE m \in defined : \A d \in defined : Le(m, d)

DurationMax(frame) ==
  LET defined == {frame[i].Duration : i \in {j \in DOMAIN frame : ~IsNaN(frame[j].Duration)}}
  IN IF defined = {} THEN NaN
     ELSE CHOOSE m \in defined : \A d \in defined : Le(d, m)

\* filteratiom_app: duration_range from the selected duration category
DurationRange(frame, duration_category) ==
  CASE duration_category = "Short" -> <<Frac(0, 1), Frac(90, 1)>>
    [] duration_category = "Medium" -> <<Frac(90, 1), Frac(150, 1)>>
    [] duration_category = "Long" -> <<Frac(150, 1), DurationMax(frame)>>
    [] OTHER -> <<DurationMin(frame), DurationMax(frame)>>

\* sort_values(by='Score', ascending=False): every order it can give.  Rows
\* with a NaN Score go last, in their prior order (na_position='last').
SortByScore(frame) ==
  LET nans == {i \in DOMAIN frame : IsNaN(frame[i].Score)}
      nums == DOMAIN frame \ nans
      rank == [i \in nums |->
                 Cardinality({j \in nums : Lt(frame[j].Score, frame[i].Score)})]
  IN {[k \in 1..Len(frame) |-> frame[(o \o Ascending(nans))[k]]] :
        o \in DescOrders(nums, rank)}

\* DataFrame.head(n)
HeadRows(frame, n) == SubSeq(frame, 1, IF n < Len(frame) THEN n ELSE Len(frame))

\* Series.idxmin() / idxmax() of Duration on a frame with a defined Duration:
\* the position of the first row holding the extreme
IdxMin(frame) ==
  CHOOSE i \in DOMAIN frame :
    /\ \A j \in DOMAIN frame : Le(frame[i].Duration, frame[j].Duration)
    /\ \A j \in 1..(i - 1) : ~Le(frame[j].Duration, frame[i].Duration)

IdxMax(frame) ==
  CHOOSE i \in DOMAIN frame :
    /\ \A j \in DOMAIN frame : Le(frame[j].Duration, frame[i].Duration)
    /\ \A j \in 1..(i - 1) : ~Le(frame[i].Duration, frame[j].Duration)

----------------------------------------------------------------------------
(* Inputs: the rows of table movies_2024 and the values the sidebar returns *)

RawRows(titles, genres, ratings, votings, durations) ==
  [Title : titles, Genre : genres, Rating : ratings, Voting : votings,
   Duration : durations]

\* the tables of 1..n rows over a set of rows
Tables(rows, n) == UNION {[1..k -> rows] : k \in 1..n}

\* the texts of at most n characters over an alphabet
Texts(alphabet, n) == UNION {[1..k -> alphabet] : k \in 0..n}

\* the number of occurrences of c in s
Count(s, c) == Cardinality({i \in 1..Len(s) : s[i] = c})

Action == <<"A", "c", "t", "i", "o", "n">>
Drama == <<" ", "D", "r", "a", "m", "a">>

H1M30 == <<"1", "h", " ", "3", "0", "m">>
H3 == <<"3", "h">>
R65 == <<"6", ".", "5">>
R7 == <<"7">>
V1K == <<"1", "K">>
V2K == <<"2", "K">>

\* rows that differ in what the filter tests (genre, rating at and below 7.0,
\* votes at and above 1000, durations of 90 and 180 minutes and a missing one)
FilterRows ==
  {[Genre |-> Action, Rating |-> R7, Voting |-> V1K, Duration |-> H1M30],
   [Genre |-> Action, Rating |-> R7, Voting |-> V2K, Duration |-> H3],
   [Genre |-> Action, Rating |-> R65, Voting |-> V1K, Duration |-> <<>>],
   [Genre |-> Action, Rating |-> R65, Voting |-> V2K, Duration |-> H1M30],
   [Genre |-> Drama, Rating |-> R7, Voting |-> V1K, Duration |-> H3],
   [Genre |-> Drama, Rating |-> R7, Voting |-> V2K, Duration |-> <<>>],
   [Genre |-> Drama, Rating |-> R65, Voting |-> V1K, Duration |-> H1M30],
   [Genre |-> Drama, Rating |-> R65, Voting |-> V2K, Duration |-> H3]}

\* tables of such rows, every row with a Title of its own
FilterTables ==
  {[i \in DOMAIN t |->
      [Title |-> <<"A", "B", "C", "D">>[i], Genre |-> t[i].Genre,
       Rating |-> t[i].Rating, Voting |-> t[i].Voting, Duration |-> t[i].Duration]] :
     t \in Tables(FilterRows, MaxRows)}

UserAny ==
  [genres |-> "any",
   rating_ranges |-> {<<70, 100>>, <<0, 65>>},
   vote_stops |-> {0, 1000},
   categories |-> {"All", "Short", "Medium", "Long"},
   duration_ranges |-> {<<90, 180>>, <<60, 90>>},
   top_ns |-> {10}]

\* the values the sidebar of filteratiom_app can return for the frame
SidebarFilterApp(frame, user) ==
  LET genres == {frame[i].Genre : i \in DOMAIN frame}
      vmax == VotingMax([i \in DOMAIN frame |-> frame[i].Voting])
      stops == {v \in user.vote_stops \cup {vmax} : v <= vmax}
  IN [selected_genres : IF user.genres = "any" THEN SUBSET genres ELSE {genres},
      rating : user.rating_ranges,
      votes_range : {v \in stops \X stops : v[1] <= v[2]},
      duration_category : user.categories,
      top_n : user.top_ns]

\* the values the sidebar of visualization_app can return for the frame
SidebarVizApp(frame, user) ==
  LET genres == {frame[i].Genre : i \in DOMAIN frame}
  IN [selected_genre : IF user.genres = "any" THEN SUBSET genres ELSE {genres},
      min_rating : {r[1] : r \in user.rating_ranges},
      min_votes : user.vote_stops,
      duration_range : user.duration_ranges]

NoWidgets == [none |-> TRUE]

NoExtremes == [status |-> "none", rows |-> <<>>]

----------------------------------------------------------------------------
(* The scripts, one action per section *)

InitWith(tables) ==
  /\ app \in {"filteratiom_app", "visualization_app"}
  /\ db \in tables
  /\ cache = {}
  /\ pc = "start"
  /\ df = <<>>
  /\ widgets = NoWidgets
  /\ filtered_df = <<>>
  /\ top_movies = <<>>
  /\ extremes = NoExtremes

\* df = load_movies_data() under @st.cache_data: the function takes no
\* argument, so one entry serves every call once it is filled
LoadMoviesData ==
  /\ pc = "start"
  /\ \/ /\ cache = {}
        /\ \E frame \in Normalized(db) :
             /\ cache' = {frame}
             /\ df' = frame
     \/ /\ cache # {}
        /\ df' \in cache
        /\ UNCHANGED cache
  /\ pc' = "loaded"
  /\ UNCHANGED <<app, db, widgets, filtered_df, top_movies, extremes>>

\* filteratiom_app sections 2 and 3: the sidebar, then filter_data
FilterData(user) ==
  /\ pc = "loaded"
  /\ app = "filteratiom_app"
  /\ \E w \in SidebarFilterApp(df, user) :
       /\ widgets' = w
       /\ filtered_df' = filter_data(df, w.selected_genres, w.rating[1], w.rating[2],
                                     w.votes_range,
                                     DurationRange(df, w.duration_category))
  /\ pc' = "filtered"
  /\ UNCHANGED <<app, db, cache, df, top_movies, extremes>>

\* visualization_app section 2: the sidebar, then the inline mask
FilteredDf(user) ==
  /\ pc = "loaded"
  /\ app = "visualization_app"
  /\ \E w \in SidebarVizApp(df, user) :
       /\ widgets' = w
       /\ filtered_df' = filtered_viz(df, w.selected_genre, w.min_rating,
                                      w.min_votes,
                                      <<Frac(w.duration_range[1], 1),
                                        Frac(w.duration_range[2], 1)>>)
  /\ pc' = "filtered"
  /\ UNCHANGED <<app, db, cache, df, top_movies, extremes>>

\* "Top N Movies by Score": head(top_n) in filteratiom_app, head(10) in the other
TopMovies ==
  /\ pc = "filtered"
  /\ \E sorted \in SortByScore(filtered_df) :
       top_movies' = HeadRows(sorted, IF app = "filteratiom_app"
                                      THEN widgets.top_n ELSE 10)
  /\ pc' = "ranked"
  /\ UNCHANGED <<app, db, cache, df, widgets, filtered_df, extremes>>

ExtremeRows(frame) ==
  <<[Title |-> frame[IdxMin(frame)].Title, Genre |-> frame[IdxMin(frame)].Genre,
     Duration |-> frame[IdxMin(frame)].Duration],
    [Title |-> frame[IdxMax(frame)].Title, Genre |-> frame[IdxMax(frame)].Genre,
     Duration |-> frame[IdxMax(frame)].Duration]>>

\* filteratiom_app "Shortest & Longest Movies": guarded by filtered_df.empty
ShortestLongest ==
  /\ pc = "ranked"
  /\ app = "filteratiom_app"
  /\ extremes' = IF filtered_df # <<>>
                 THEN [status |-> "table", rows |-> ExtremeRows(filtered_df)]
                 ELSE [status |-> "no movies match", rows |-> <<>>]
  /\ pc' = "done"
  /\ UNCHANGED <<app, db, cache, df, widgets, filtered_df, top_movies>>

\* visualization_app "Shortest & Longest Movies": idxmin() of an empty Series
\* raises ValueError, which ends the run
ShortestLongestViz ==
  /\ pc = "ranked"
  /\ app = "visualization_app"
  /\ extremes' = IF filtered_df # <<>>
                 THEN [status |-> "table", rows |-> ExtremeRows(filtered_df)]
                 ELSE [status |-> "ValueError", rows |-> <<>>]
  /\ pc' = IF filtered_df # <<>> THEN "done" ELSE "crashed"
  /\ UNCHANGED <<app, db, cache, df, widgets, filtered_df, top_movies>>

\* a widget changes: Streamlit runs the script again from the top; the cache
\* of load_movies_data outlives the run
Rerun ==
  /\ pc \in {"done", "crashed"}
  /\ pc' = "start"
  /\ df' = <<>>
  /\ widgets' = NoWidgets
  /\ filtered_df' = <<>>
  /\ top_movies' = <<>>
  /\ extremes' = NoExtremes
  /\ UNCHANGED <<app, db, cache>>

\* the data source changes table movies_2024 between two runs
DbWrite(tables) ==
  /\ pc = "start"
  /\ db' \in tables \ {db}
  /\ UNCHANGED <<app, cache, pc, df, widgets, filtered_df, top_movies, extremes>>

\* the widgets left as the script sets them, as far as the frame allows
UserDefault ==
  [genres |-> "all",
   rating_ranges |-> {<<70, 100>>},
   vote_stops |-> {1000},
   categories |-> {"All"},
   duration_ranges |-> {<<90, 180>>},
   top_ns |-> {10}]

UserTop ==
  [genres |-> "all",
   rating_ranges |-> {<<0, 100>>},
   vote_stops |-> {0},
   categories |-> {"All"},
   duration_ranges |-> {<<90, 180>>},
   top_ns |-> {5}]

\* rows that differ in what the normalizer handles: repeated titles, votes of
\* zero, ratings beyond 10, durations that do not parse
CleanRows ==
  {[Rating |-> <<"8", ".", "5">>, Voting |-> V2K, Duration |-> <<"2", "h">>],
   [Rating |-> <<"8", ".", "5">>, Voting |-> <<"0">>, Duration |-> <<>>],
   [Rating |-> <<"1", "2">>, Voting |-> V2K, Duration |-> <<>>],
   [Rating |-> <<"1", "2">>, Voting |-> <<"0">>, Duration |-> <<"2", "h">>]}

CleanTables ==
  Tables({[Title |-> t, Genre |-> Action, Rating |-> r.Rating, Voting |-> r.Voting,
           Duration |-> r.Duration] : t \in {"A", "B"}, r \in CleanRows},
         MaxBatch)

\* one row, its Voting any short text
VotingTexts ==
  {s \in Texts({"8", "2", ",", ".", "K"}, MaxVotingLen) : Count(s, "K") <= 2}
    \cup {None, <<"1", "2", ",", "3", "4", "5">>, <<"1", ",", "2", "3", "4">>,
          <<"1", "2", ".", "3", "K">>}

VotingTables ==
  Tables(RawRows({"A"}, {Action}, {<<"8", ".", "5">>}, VotingTexts, {<<"2", "h">>}), 1)

\* one row, its Duration any short text, its Rating a number or missing
DurationTexts ==
  Texts({"0", "2", "h", "m", " "}, MaxDurationLen)
    \cup {None, <<"2", "h", " ", "1", "5", "m">>, <<"4", "5", "m">>,
          <<"1", "h", " ", "5", "m", "i", "n">>}

DurationTables ==
  Tables(RawRows({"A"}, {Action}, {<<"8", ".", "5">>, None}, {<<"2", "K">>}, DurationTexts), 1)

\* up to MaxTop rows of distinct votes, each with one of two ratings, so that
\* Score takes one of two values: with votes 1000, 990, 980, ... and ratings
\* 7.0, 7.1, 7.2, ... or 8.0, 8.1, 8.2, ... Score is 0.85 or 0.9
TopTitles == <<"A", "B", "C", "D", "E", "F", "G", "H">>

TopTenths == <<"0", "1", "2", "3", "4", "5", "6", "7">>

TopVotings ==
  <<<<"1", "0", "0", "0">>, <<"9", "9", "0">>, <<"9", "8", "0">>, <<"9", "7", "0">>,
    <<"9", "6", "0">>, <<"9", "5", "0">>, <<"9", "4", "0">>, <<"9", "3", "0">>>>

TopTables ==
  UNION {{[i \in 1..k |->
             [Title |-> TopTitles[i], Genre |-> Action, Rating |-> <<base[i], ".", TopTenths[i]>>,
              Voting |-> TopVotings[i], Duration |-> <<"2", "h">>]] :
            base \in [1..k -> {"7", "8"}]} : k \in 1..MaxTop}

\* two contents of the table, with and without a second row
CacheTables ==
  Tables(RawRows({"A", "B"}, {Action}, {<<"8", ".", "5">>}, {<<"1", "K">>, <<"2", "K">>},
                 {<<"2", "h">>}), MaxBatch)

Init == InitWith(FilterTables)

Next ==
  \/ LoadMoviesData
  \/ FilterData(UserAny)
  \/ FilteredDf(UserAny)
  \/ TopMovies
  \/ ShortestLongest
  \/ ShortestLongestViz
  \/ Rerun

Spec == Init /\ [][Next]_vars

NextDefault ==
  \/ LoadMoviesData
  \/ FilterData(UserDefault)
  \/ FilteredDf(UserDefault)
  \/ TopMovies
  \/ ShortestLongest
  \/ ShortestLongestViz
  \/ Rerun

InitClean == InitWith(CleanTables)

SpecClean == InitClean /\ [][NextDefault]_vars

InitVoting == InitWith(VotingTables)

SpecVoting == InitVoting /\ [][NextDefault]_vars

InitDuration == InitWith(DurationTables)

SpecDuration == InitDuration /\ [][NextDefault]_vars

NextTop ==
  \/ LoadMoviesData
  \/ FilterData(UserTop)
  \/ FilteredDf(UserTop)
  \/ TopMovies
  \/ ShortestLongest
  \/ ShortestLongestViz
  \/ Rerun

InitTop == InitWith(TopTables)

SpecTop == InitTop /\ [][NextTop]_vars

NextCache ==
  \/ NextDefault
  \/ DbWrite(CacheTables)

InitCache == InitWith(CacheTables)

SpecCache == InitCache /\ [][NextCache]_vars

----------------------------------------------------------------------------
(* Properties *)

Loaded == pc \in {"loaded", "filtered", "ranked", "done", "crashed"}

Filtered == pc \in {"filtered", "ranked", "done", "crashed"}

Ranked == pc \in {"ranked", "done", "crashed"}

\* lo <= x <= hi on fractions, written out by cross-multiplication
InRange(x, lo, hi) ==
  /\ x[2] # 0 /\ lo[2] # 0 /\ hi[2] # 0
  /\ lo[1] * x[2] <= x[1] * lo[2]
  /\ x[1] * hi[2] <= hi[1] * x[2]

\* the four predicates of the filter spec in force, on one record
PassesAll(r) ==
  IF app = "filteratiom_app"
  THEN /\ r.Genre \in widgets.selected_genres
       /\ r.Rating \in widgets.rating[1]..widgets.rating[2]
       /\ r.Voting \in widgets.votes_range[1]..widgets.votes_range[2]
       /\ InRange(r.Duration, DurationRange(df, widgets.duration_category)[1],
                  DurationRange(df, widgets.duration_category)[2])
  ELSE /\ r.Genre \in widgets.selected_genre
       /\ ~(r.Rating < widgets.min_rating)
       /\ ~(r.Voting < widgets.min_votes)
       /\ InRange(r.Duration, <<widgets.duration_range[1], 1>>,
                  <<widgets.duration_range[2], 1>>)

\* C1: the filtered output holds exactly the records of the batch that satisfy
\* all four predicates of the filter spec (every output record satisfies them,
\* every excluded record violates one), in the relative order of the batch.
C1_FilterExact ==
  Filtered =>
    /\ \A k \in DOMAIN filtered_df : PassesAll(filtered_df[k])
    /\ \A i \in DOMAIN df :
         PassesAll(df[i]) <=> \E k \in DOMAIN filtered_df : filtered_df[k] = df[i]
    /\ \A k, l \in DOMAIN filtered_df :
         k < l => \E i, j \in DOMAIN df :
                    i < j /\ df[i] = filtered_df[k] /\ df[j] = filtered_df[l]

\* filter_data has kept the second of two records, whose Duration lies on
\* the lower bound of the "Medium" range, and dropped the first
C1_Witness ==
  /\ pc = "filtered"
  /\ Len(filtered_df) = 1
  /\ Len(df) = 2
  /\ app = "filteratiom_app"
  /\ widgets.duration_category = "Medium"
  /\ filtered_df[1].Duration = <<90, 1>>
  /\ filtered_df[1] = df[2]

\* C2: the normalized batch holds at most one record per Title, and that
\* record is an input record whose Voting is maximal among the input records
\* with the same Title.
C2_Dedup ==
  Loaded =>
    /\ \A i, j \in DOMAIN df : i # j => df[i].Title # df[j].Title
    /\ \A i \in DOMAIN df :
         /\ df[i].idx \in DOMAIN db
         /\ db[df[i].idx].Title = df[i].Title
         /\ CleanVoting(db[df[i].idx].Voting) = df[i].Voting
         /\ \A k \in DOMAIN db :
              db[k].Title = df[i].Title => CleanVoting(db[k].Voting) <= df[i].Voting

\* a table whose later row repeats a Title with more votes, loaded
C2_Witness ==
  /\ pc = "loaded"
  /\ Len(df) < Len(db)
  /\ \E k, l \in DOMAIN db :
       /\ k < l
       /\ db[k].Title = db[l].Title
       /\ CleanVoting(db[k].Voting) < CleanVoting(db[l].Voting)

\* the maximum of the cleaned Voting over the whole table
MaxVoting == VotingMax([i \in DOMAIN db |-> CleanVoting(db[i].Voting)])

\* C3: when the maximum Voting of the batch is 0 the load ends in an explicit
\* error, so that no record with a NaN Voting_norm or Score is ever produced.
C3_NoNaNScore ==
  Loaded => \A i \in DOMAIN df : ~IsNaN(df[i].Voting_norm) /\ ~IsNaN(df[i].Score)

\* C4: when no Duration of the batch parses the load ends in an explicit
\* error, and otherwise every undefined Duration is replaced by the mean of
\* the defined ones, so that no record is left with a NaN Duration.
C4_NoNaNDuration ==
  Loaded => \A i \in DOMAIN df : ~IsNaN(df[i].Duration)

\* C7 as stated: for every table whose maximum Voting is positive, every
\* record has Score = 0.5*(Rating/10) + 0.5*(Voting/max Voting) and that Score
\* lies in [0,1].
C7_ScoreInUnitInterval ==
  (Loaded /\ MaxVoting > 0) =>
    \A i \in DOMAIN df :
      df[i].Score[2] # 0 /\ 0 <= df[i].Score[1] /\ df[i].Score[1] <= df[i].Score[2]

\* C7, amended: for every table whose maximum Voting is positive, every record
\* has Score = 0.5*(Rating/10) + 0.5*(Voting/max Voting), and that Score lies
\* in [0,1] whenever the record's Rating lies in [0,10].
C7_ScoreFormula ==
  (Loaded /\ MaxVoting > 0) =>
    \A i \in DOMAIN df :
      /\ df[i].Score[2] # 0
      /\ df[i].Score[1] * (200 * MaxVoting)
           = (df[i].Rating * MaxVoting + 100 * df[i].Voting) * df[i].Score[2]
      /\ df[i].Rating \in 0..100 =>
           0 <= df[i].Score[1] /\ df[i].Score[1] <= df[i].Score[2]

\* a record rated 8.5 with fewer votes than the maximum, and one with the maximum
C7_Witness ==
  /\ pc = "loaded"
  /\ MaxVoting > 0
  /\ \E i, j \in DOMAIN df :
       /\ df[i].Rating = 85 /\ df[i].Voting < MaxVoting
       /\ df[j].Rating = 85 /\ df[j].Voting = MaxVoting

\* C8: the shortest/longest section answers an empty filtered subset with the
\* explicit "no data" result, never with a crash, in both scripts.
C8_EmptyExtremes ==
  (pc \in {"done", "crashed"} /\ filtered_df = <<>>) =>
    pc = "done" /\ extremes.status = "no movies match"

\* the text as astype(str) shows it
Shown(v) == IF v = <<"NULL">> THEN <<"N", "o", "n", "e">> ELSE v

\* reading t from position p on with the number v read so far: a digit
\* appends itself, a character of `thousands` appends 000, a comma is skipped,
\* anything else ends the number
RECURSIVE ReadNumber(_, _, _, _)
ReadNumber(t, p, v, thousands) ==
  IF p > Len(t) THEN v
  ELSE IF t[p] \in Digits THEN ReadNumber(t, p + 1, v * 10 + DigitVal(t[p]), thousands)
  ELSE IF p \in thousands THEN ReadNumber(t, p + 1, v * 1000, thousands)
  ELSE IF t[p] = "," THEN ReadNumber(t, p + 1, v, thousands)
  ELSE v

\* the number a Voting text stands for when the K's at the positions
\* `thousands` count as 000: read from the first digit or such K, 0 if none
VotingRead(t, thousands) ==
  LET starts == {p \in 1..Len(t) : t[p] \in Digits \/ p \in thousands}
  IN IF starts = {} THEN 0
     ELSE ReadNumber(t, CHOOSE p \in starts : \A q \in starts : p <= q, 0, thousands)

\* C5 as stated: separators stripped, a trailing K expanded into 000, the
\* first run of digits taken (0 if none); "12,345" gives 12345, "1,234" gives
\* 1234 and "8.2K" gives 8000.
C5_TrailingK ==
  Loaded =>
    LET t == Shown(db[1].Voting)
    IN /\ df[1].Voting = VotingRead(t, {p \in {Len(t)} : p > 0 /\ t[p] = "K"})
       /\ t = <<"8", ".", "2", "K">> => df[1].Voting = 8000
       /\ t = <<"1", "2", ",", "3", "4", "5">> => df[1].Voting = 12345
       /\ t = <<"1", ",", "2", "3", "4">> => df[1].Voting = 1234

\* C5, amended: Voting normalization never fails and yields a non-negative
\* integer: separators stripped, every K expanded into 000, the first run of
\* digits taken (0 if none); "12,345" gives 12345, "1,234" gives 1234 and
\* "8.2K" gives 8.
C5_EveryK ==
  Loaded =>
    LET t == Shown(db[1].Voting)
    IN /\ df[1].Voting = VotingRead(t, {p \in 1..Len(t) : t[p] = "K"})
       /\ df[1].Voting >= 0
       /\ t = <<"8", ".", "2", "K">> => df[1].Voting = 8
       /\ t = <<"1", "2", ",", "3", "4", "5">> => df[1].Voting = 12345
       /\ t = <<"1", ",", "2", "3", "4">> => df[1].Voting = 1234

\* "8.2K" has been loaded
C5_Witness ==
  /\ pc = "loaded"
  /\ db[1].Voting = <<"8", ".", "2", "K">>
  /\ df[1].Voting = 8

\* the "<N>c" components of a text: the values N of the digit runs that are
\* directly followed by c, by the position where the run starts
Components(t, c) ==
  [i \in {i \in 1..Len(t) :
            /\ t[i] \in Digits
            /\ i = 1 \/ t[i - 1] \notin Digits
            /\ \E j \in i..(Len(t) - 1) :
                 (\A k \in i..j : t[k] \in Digits) /\ t[j + 1] = c}
     |-> ToInt(SubSeq(t, i, (CHOOSE j \in i..(Len(t) - 1) :
                               (\A k \in i..j : t[k] \in Digits) /\ t[j + 1] = c)))]

\* the value of the first component of t, 0 if there is none
FirstComponent(t, c) ==
  IF DOMAIN Components(t, c) = {} THEN 0
  ELSE Components(t, c)[CHOOSE i \in DOMAIN Components(t, c) :
                          \A j \in DOMAIN Components(t, c) : i <= j]

\* C6 as stated: the duration is hours*60 + minutes whenever the text has an
\* "<N>h" or an "<N>m" component, and undefined only when it has neither.
C6_DefinedIffComponent ==
  Loaded =>
    LET t == Shown(db[1].Duration)
        total == FirstComponent(t, "h") * 60 + FirstComponent(t, "m")
    IN IF DOMAIN Components(t, "h") # {} \/ DOMAIN Components(t, "m") # {}
       THEN df[1].Duration = <<total, 1>>
       ELSE IsNaN(df[1].Duration)

\* C6, amended: the duration is hours*60 + minutes whenever that sum is not 0,
\* and undefined when the text has no "<N>h" and no "<N>m" component or when
\* the sum is 0: "2h 15m" gives 135, "2h" gives 120, "45m" gives 45, "" gives
\* undefined.
C6_DefinedIffPositive ==
  Loaded =>
    LET t == Shown(db[1].Duration)
        total == FirstComponent(t, "h") * 60 + FirstComponent(t, "m")
    IN /\ IF total # 0 THEN df[1].Duration = <<total, 1>> ELSE IsNaN(df[1].Duration)
       /\ t = <<"2", "h", " ", "1", "5", "m">> => df[1].Duration = <<135, 1>>
       /\ t = <<"2", "h">> => df[1].Duration = <<120, 1>>
       /\ t = <<"4", "5", "m">> => df[1].Duration = <<45, 1>>
       /\ t = <<>> => IsNaN(df[1].Duration)

\* "2h 15m" has been loaded
C6_Witness ==
  /\ pc = "loaded"
  /\ db[1].Duration = <<"2", "h", " ", "1", "5", "m">>
  /\ df[1].Duration = <<135, 1>>

\* the n of the top-N section
TopN == IF app = "filteratiom_app" THEN widgets.top_n ELSE 10

\* C9: the top-N section returns min(n, |subset|) records of the subset,
\* ordered by Score descending, records of equal Score in their prior
\* relative order, each with a Score at least that of every record left out.
C9_StableTopN ==
  Ranked =>
    /\ Len(top_movies) = IF TopN < Len(filtered_df) THEN TopN ELSE Len(filtered_df)
    /\ \A k \in DOMAIN top_movies : \E i \in DOMAIN filtered_df :
         filtered_df[i] = top_movies[k]
    /\ \A k, l \in DOMAIN top_movies :
         k < l =>
           /\ InRange(top_movies[l].Score, top_movies[l].Score, top_movies[k].Score)
           /\ top_movies[k].Score = top_movies[l].Score =>
                \E i, j \in DOMAIN filtered_df :
                  i < j /\ filtered_df[i] = top_movies[k] /\ filtered_df[j] = top_movies[l]
    /\ \A k \in DOMAIN top_movies : \A i \in DOMAIN filtered_df :
         (\A l \in DOMAIN top_movies : top_movies[l] # filtered_df[i]) =>
           InRange(filtered_df[i].Score, filtered_df[i].Score, top_movies[k].Score)

\* C10: the normalized batch is memoized on the raw batch: a filled cache is
\* never recomputed, and every load returns a normalization of the table as
\* it stands (never the cached result of another table).
C10_CacheKeyedOnInput ==
  [][/\ cache # {} => cache' = cache
     /\ (pc = "start" /\ pc' = "loaded") => df' \in Normalized(db)]_vars

====
